---- MODULE Spec2Model ----
(***************************************************************************)
(* Argumentation core of ethical-smart-grid                                *)
(* (src/smartgrid/rewards/argumentation/lib): Argument, AFDM (the          *)
(* argumentation graph) and JudgingAgent.                                  *)
(*                                                                         *)
(* Python objects live in a heap so that aliasing is visible: an Argument  *)
(* object is a heap cell, a reference is the cell's address, and an AFDM   *)
(* maps names to references.  copy.deepcopy fills a new cell.  Argument    *)
(* names are integers (opaque identifiers, only compared for equality by   *)
(* the code), decisions are strings, situations are integers and           *)
(* activation functions are thresholds `lambda s: s >= t`, the family used *)
(* by src/tests/test_argumentation.py.                                     *)
(***************************************************************************)
EXTENDS Integers, FiniteSets, Sequences, TLC

VARIABLES graph, heap, arg, agent, hist, ret, agent_B, best_acceptable_count,
          frame

vars == <<graph, heap, arg, agent, hist, ret, agent_B, best_acceptable_count,
         frame>>

---------------------------------------------------------------------------
(* Bounds of the model.                                                    *)

\* Names of the graphs whose grounded extension is computed.
NumNames == 3

\* Attacks of those graphs.
MaxAttacks == 3

\* Names and attacks of the graph built call by call.
NumApiNames == 2

MaxApiAttacks == 2

\* Names of the graph built from the caller's own Argument objects.
NumCopyNames == 1

\* Arguments and attacks of a JudgingAgent's template, situations judged
\* and judge calls.
TemplateArgs == 2

MaxTemplateAttacks == 1

NumSituations == 2

MaxJudge == 2

\* j_ratio calls of one sequence.
MaxRatioCalls == 2

\* Arguments of the template of an agent whose original graph is changed
\* after construction (the original graph can hold one more).
IsolatedArgs == 1

\* Arguments of the template of an agent with any judgment function.
RewardArgs == 2

\* Arguments of the graphs the judgment functions are called on.
JudgmentArgs == 3

\* All names; the other name bounds stay below NumNames.
Names == 1..NumNames

Situations == 1..NumSituations

Decisions == {"moral"}

\* `return None`.
None == 0

Range(s) == {s[i] : i \in 1..Len(s)}

---------------------------------------------------------------------------
(* The heap.  A cell address is a pair <<owner, name>>: the Argument       *)
(* stored by graph `owner` under `name` occupies <<owner, name>>, and the  *)
(* caller's own objects occupy ArgCell and TmpCell.  A cell is reused only *)
(* when nothing references its previous object.                            *)

NoRef == <<"None", None>>

ArgCell == <<"arg", None>>

TmpCell == <<"tmp", None>>

\* Allocation of a new object in a free cell.
new_object(h, cell, obj) == [heap |-> (cell :> obj) @@ h, ref |-> cell]

\* A mutant of deepcopy: the very same object is handed back.
deepcopy_alias(h, ref, cell) == [heap |-> h, ref |-> ref]

\* copy.deepcopy(argument): a new object with the same field values.
deepcopy(h, ref, cell) == new_object(h, cell, h[ref])

---------------------------------------------------------------------------
(* Argument (argument.py).  `content` is diagnostic text and is left out.  *)
(* The support and counter lists are owned by their Argument: they are     *)
(* fields of its heap cell, and only membership in them is ever read.      *)

Argument_init(name, activation_function, support, counter) ==
    [name |-> name, activation_function |-> activation_function,
     alive |-> TRUE, support |-> support, counter |-> counter]

\* Argument.compute: the activation function applied to the state; the
\* function `lambda s: s >= t` is represented by its threshold t.
compute(argument, state) == state >= argument.activation_function

\* The thresholds: the least one is the default `lambda s: True`, the
\* greatest one is never reached.
Thresholds == Situations \cup {NumSituations + 1}

always_true == CHOOSE t \in Thresholds : \A s \in Situations : s >= t

set_alive(h, ref, alive) == [h EXCEPT ![ref].alive = alive]

add_support(h, ref, value) == [h EXCEPT ![ref].support = @ \cup {value}]

add_counter(h, ref, value) == [h EXCEPT ![ref].counter = @ \cup {value}]

---------------------------------------------------------------------------
(* AFDM (afdm.py).  A memory m is [graph, heap]; an AFDM is a record       *)
(*   A          the dict name -> Argument, as the sequence of its items    *)
(*              in insertion order;                                        *)
(*   attackers, attacked   the two defaultdict(set) indexes: a missing key *)
(*              reads as the empty set, so they are total functions;       *)
(*   decisions, grounded.                                                  *)

AFDM_init ==
    [A |-> <<>>,
     attackers |-> [n \in Names |-> {}],
     attacked |-> [n \in Names |-> {}],
     decisions |-> {},
     grounded |-> <<>>]

\* self.A.keys(), in insertion order, and as a set.
KeySeq(g) == [i \in 1..Len(g.A) |-> g.A[i].name]

Keys(g) == {g.A[i].name : i \in 1..Len(g.A)}

\* self.A[name]: the reference stored under a known name.
Lookup(g, name) == g.A[CHOOSE i \in 1..Len(g.A) : g.A[i].name = name].ref

\* self.arguments: the references of self.A.values().
ArgRefs(g) == {g.A[i].ref : i \in 1..Len(g.A)}

\* A mutant of SetItem: a new entry whatever the keys are.
SetItem_append(A, name, ref) == Append(A, [name |-> name, ref |-> ref])

\* self.A[name] = ref: a known key keeps its place in the dict.
SetItem(A, name, ref) ==
    IF \E i \in 1..Len(A) : A[i].name = name
    THEN [i \in 1..Len(A) |->
            IF A[i].name = name THEN [name |-> name, ref |-> ref] ELSE A[i]]
    ELSE Append(A, [name |-> name, ref |-> ref])

\* AFDM.R: the attacks, as pairs <<attacker, attacked>>.
R(g) == {<<x, y>> \in Names \X Names : y \in g.attacked[x]}

add_argument(m, gid, argument) ==
    LET g == m.graph[gid]
        given == m.heap[argument]
        c == deepcopy(m.heap, argument, <<gid, given.name>>)
        new_argument == c.ref
        g2 == [g EXCEPT !.A = SetItem(@, given.name, new_argument),
                        !.decisions = (@ \cup given.support) \cup given.counter]
    IN  [mem |-> [graph |-> [m.graph EXCEPT ![gid] = g2], heap |-> c.heap],
         ref |-> new_argument]

\* A mutant of add_attack_relation: the attacked name is not checked.
add_attack_relation_unchecked(m, gid, attacker, attacked) ==
    LET g == m.graph[gid]
    IN  IF attacker \notin Keys(g)
        THEN [mem |-> m, exc |-> attacker]
        ELSE [mem |-> [m EXCEPT !.graph[gid].attackers[attacked] = @ \cup {attacker},
                                !.graph[gid].attacked[attacker] = @ \cup {attacked}],
              exc |-> None]

\* A mutant of add_attack_relation: only the attackers index is updated.
add_attack_relation_attackers_only(m, gid, attacker, attacked) ==
    LET g == m.graph[gid]
    IN  IF attacker \notin Keys(g)
        THEN [mem |-> m, exc |-> attacker]
        ELSE IF attacked \notin Keys(g)
        THEN [mem |-> m, exc |-> attacked]
        ELSE [mem |-> [m EXCEPT !.graph[gid].attackers[attacked] = @ \cup {attacker}],
              exc |-> None]

add_attack_relation(m, gid, attacker, attacked) ==
    LET g == m.graph[gid]
    IN  IF attacker \notin Keys(g)
        THEN [mem |-> m, exc |-> attacker]
        ELSE IF attacked \notin Keys(g)
        THEN [mem |-> m, exc |-> attacked]
        ELSE [mem |-> [m EXCEPT !.graph[gid].attackers[attacked] = @ \cup {attacker},
                                !.graph[gid].attacked[attacker] = @ \cup {attacked}],
              exc |-> None]

is_alive(m, gid, argument_name) ==
    LET g == m.graph[gid]
    IN  IF argument_name \notin Keys(g)
        THEN [exc |-> argument_name, val |-> FALSE]
        ELSE [exc |-> None, val |-> m.heap[Lookup(g, argument_name)].alive]

\* The returned list is built by iterating a set: it is modelled by its set
\* of elements.  No membership test: self.attackers is a defaultdict.
get_attackers(m, gid, argument) ==
    [exc |-> None, val |-> m.graph[gid].attackers[argument]]

get_attacked(m, gid, argument) ==
    [exc |-> None, val |-> m.graph[gid].attacked[argument]]

\* A mutant of initial_labels: aliveness is ignored.
initial_labels_all_undecided(m, gid) ==
    [argument \in Keys(m.graph[gid]) |-> "undecided"]

\* The initial labels of compute_grounded_extension.
initial_labels(m, gid) ==
    [argument \in Keys(m.graph[gid]) |->
        IF is_alive(m, gid, argument).val THEN "undecided" ELSE "out"]

\* A mutant of valid_candidate: an attacker only has to be not in.
valid_candidate_not_in(m, gid, labels, candidate) ==
    /\ labels[candidate] = "undecided"
    /\ \A a \in get_attackers(m, gid, candidate).val :
          a \in DOMAIN labels /\ labels[a] # "in"

\* The test _grounded_loop_condition makes of a candidate: it is undecided
\* and each of its attackers is out.
valid_candidate(m, gid, labels, candidate) ==
    /\ labels[candidate] = "undecided"
    /\ \A a \in get_attackers(m, gid, candidate).val :
          a \in DOMAIN labels /\ labels[a] = "out"

\* A mutant of _grounded_loop_condition: None is returned as soon as a key
\* is not a valid candidate.
_grounded_loop_condition_first_key(m, gid, labels) ==
    LET keys == KeySeq(m.graph[gid])
    IN  IF keys # <<>> /\ valid_candidate(m, gid, labels, keys[1])
        THEN keys[1] ELSE None

\* The first valid candidate in the order of labels.keys(), or None.
_grounded_loop_condition(m, gid, labels) ==
    LET keys == KeySeq(m.graph[gid])
        ok == {i \in 1..Len(keys) : valid_candidate(m, gid, labels, keys[i])}
    IN  IF ok = {} THEN None
        ELSE keys[CHOOSE i \in ok : \A j \in ok : i <= j]

\* A mutant of grounded_step: x keeps its label.
grounded_step_without_in(m, gid, labels, x) ==
    LET attacked == get_attacked(m, gid, x).val
    IN  [z \in DOMAIN labels |-> IF z \in attacked THEN "out" ELSE labels[z]]

\* One iteration of the while loop: x is put in, then everything x attacks
\* is put out (the later assignment wins).
grounded_step(m, gid, labels, x) ==
    LET attacked == get_attacked(m, gid, x).val
    IN  [z \in DOMAIN labels |->
            IF z \in attacked THEN "out"
            ELSE IF z = x THEN "in" ELSE labels[z]]

RECURSIVE grounded_loop(_, _, _)
grounded_loop(m, gid, labels) ==
    LET x == _grounded_loop_condition(m, gid, labels)
    IN  IF x = None THEN labels
        ELSE grounded_loop(m, gid, grounded_step(m, gid, labels, x))

\* A mutant of compute_grounded_extension: every name not labelled out is
\* collected.
compute_grounded_extension_not_out(m, gid) ==
    LET labels == grounded_loop(m, gid, initial_labels(m, gid))
    IN  SelectSeq(KeySeq(m.graph[gid]), LAMBDA argument : labels[argument] # "out")

\* The names labelled in, in the order of labels.keys().
compute_grounded_extension(m, gid) ==
    LET labels == grounded_loop(m, gid, initial_labels(m, gid))
    IN  SelectSeq(KeySeq(m.graph[gid]), LAMBDA argument : labels[argument] = "in")

\* A mutant of update_alive_in_grounded_extension: an argument that is
\* alive stays alive.
update_alive_in_grounded_extension_keep(m, gid) ==
    LET grounded == compute_grounded_extension(m, gid)
        refs == ArgRefs(m.graph[gid])
    IN  [graph |-> [m.graph EXCEPT ![gid].grounded = grounded],
         heap |-> [r \in DOMAIN m.heap |->
                     IF r \in refs
                     THEN [m.heap[r] EXCEPT
                             !.alive = @ \/ m.heap[r].name \in Range(grounded)]
                     ELSE m.heap[r]]]

\* A mutant of update_alive_in_grounded_extension: the test of membership
\* is negated.
update_alive_in_grounded_extension_negated(m, gid) ==
    LET grounded == compute_grounded_extension(m, gid)
        refs == ArgRefs(m.graph[gid])
    IN  [graph |-> [m.graph EXCEPT ![gid].grounded = grounded],
         heap |-> [r \in DOMAIN m.heap |->
                     IF r \in refs
                     THEN [m.heap[r] EXCEPT
                             !.alive = m.heap[r].name \notin Range(grounded)]
                     ELSE m.heap[r]]]

update_alive_in_grounded_extension(m, gid) ==
    LET grounded == compute_grounded_extension(m, gid)
        refs == ArgRefs(m.graph[gid])
    IN  [graph |-> [m.graph EXCEPT ![gid].grounded = grounded],
         heap |-> [r \in DOMAIN m.heap |->
                     IF r \in refs
                     THEN [m.heap[r] EXCEPT
                             !.alive = m.heap[r].name \in Range(grounded)]
                     ELSE m.heap[r]]]

---------------------------------------------------------------------------
(* Judgment (judgment.py).  A reward is the fraction num/den of two        *)
(* integers, den >= 0: the model computes the quotients exactly.  A        *)
(* fraction with den = 0 is a division by zero, that is                    *)
(* ZeroDivisionError raised by the transform.                              *)

\* The number of Arguments the returned list holds.
arguments_supporting(m, gid, decision, ignore_aliveness) ==
    Cardinality({r \in ArgRefs(m.graph[gid]) :
        /\ decision \in m.heap[r].support
        /\ ignore_aliveness \/ m.heap[r].alive})

arguments_countering(m, gid, decision, ignore_aliveness) ==
    Cardinality({r \in ArgRefs(m.graph[gid]) :
        /\ decision \in m.heap[r].counter
        /\ ignore_aliveness \/ m.heap[r].alive})

\* The float 0.5.
Half == [num |-> 1, den |-> 2]

\* A mutant of j_simple: no fallback.
j_simple_no_fallback(m, gid, decision) ==
    LET pros == arguments_supporting(m, gid, decision, FALSE)
        cons == arguments_countering(m, gid, decision, FALSE)
    IN  [num |-> pros, den |-> pros + cons]

j_simple(m, gid, decision) ==
    LET pros == arguments_supporting(m, gid, decision, FALSE)
        cons == arguments_countering(m, gid, decision, FALSE)
    IN  IF pros + cons = 0 THEN Half
        ELSE [num |-> pros, den |-> pros + cons]

\* A mutant of j_diff: the alive counts are taken for the totals.
j_diff_alive_totals(m, gid, decision) ==
    LET alive_pros == arguments_supporting(m, gid, decision, FALSE)
        alive_cons == arguments_countering(m, gid, decision, FALSE)
        pros == IF alive_pros # 0 THEN [num |-> alive_pros, den |-> alive_pros]
                ELSE [num |-> 0, den |-> 1]
        cons == IF alive_cons # 0 THEN [num |-> alive_cons, den |-> alive_cons]
                ELSE [num |-> 0, den |-> 1]
    IN  [num |-> pros.num * cons.den - cons.num * pros.den,
         den |-> pros.den * cons.den]

j_diff(m, gid, decision) ==
    LET alive_pros == arguments_supporting(m, gid, decision, FALSE)
        total_pros == arguments_supporting(m, gid, decision, TRUE)
        alive_cons == arguments_countering(m, gid, decision, FALSE)
        total_cons == arguments_countering(m, gid, decision, TRUE)
        pros == IF total_pros # 0 THEN [num |-> alive_pros, den |-> total_pros]
                ELSE [num |-> 0, den |-> 1]
        cons == IF total_cons # 0 THEN [num |-> alive_cons, den |-> total_cons]
                ELSE [num |-> 0, den |-> 1]
    IN  [num |-> pros.num * cons.den - cons.num * pros.den,
         den |-> pros.den * cons.den]

\* A mutant of j_ratio: the known maximum is replaced by the current count.
j_ratio_current_count(m, gid, decision, count) ==
    LET pros == arguments_supporting(m, gid, decision, FALSE)
        cons == arguments_countering(m, gid, decision, FALSE)
        top == (pros * pros) - (cons * cons)
        down == pros + cons
    IN  [reward |-> IF down = 0 THEN Half ELSE [num |-> top, den |-> down],
         best_acceptable_count |-> down]

\* j_ratio.best_acceptable_count is an attribute of the function object:
\* one value for the whole process, given as `count` and returned updated.
\* The attribute is created with 0 by the first call, so a missing
\* attribute and 0 are the same state.
j_ratio(m, gid, decision, count) ==
    LET pros == arguments_supporting(m, gid, decision, FALSE)
        cons == arguments_countering(m, gid, decision, FALSE)
        top == (pros * pros) - (cons * cons)
        down == pros + cons
        best == IF down > count THEN down ELSE count
    IN  [reward |-> IF best = 0 THEN Half ELSE [num |-> top, den |-> best],
         best_acceptable_count |-> best]

\* A mutant of j_grad: the steps are 1/total_pros and 1/total_cons.
j_grad_full_steps(m, gid, decision) ==
    LET total_pros == arguments_supporting(m, gid, decision, TRUE)
        total_cons == arguments_countering(m, gid, decision, TRUE)
        pros == arguments_supporting(m, gid, decision, FALSE)
        cons == arguments_countering(m, gid, decision, FALSE)
    IN  IF total_pros = 0 \/ total_cons = 0 THEN Half
        ELSE [num |-> (total_pros * total_cons) + (2 * pros * total_cons)
                         - (2 * cons * total_pros),
              den |-> 2 * total_pros * total_cons]

\* start + (up_step * pros) - (down_step * cons), start = 1/2,
\* up_step = 1/(2 total_pros), down_step = 1/(2 total_cons).
j_grad(m, gid, decision) ==
    LET total_pros == arguments_supporting(m, gid, decision, TRUE)
        total_cons == arguments_countering(m, gid, decision, TRUE)
        pros == arguments_supporting(m, gid, decision, FALSE)
        cons == arguments_countering(m, gid, decision, FALSE)
    IN  IF total_pros = 0 \/ total_cons = 0 THEN Half
        ELSE [num |-> (total_pros * total_cons) + (pros * total_cons)
                         - (cons * total_pros),
              den |-> 2 * total_pros * total_cons]

\* A mutant of j_offset: the result is not clamped.
j_offset_unclamped(m, gid, decision) ==
    LET pros == arguments_supporting(m, gid, decision, FALSE)
        cons == arguments_countering(m, gid, decision, FALSE)
    IN  [num |-> 1 + pros, den |-> 1 + cons]

\* A mutant of j_offset: no offset.
j_offset_no_offset(m, gid, decision) ==
    LET pros == arguments_supporting(m, gid, decision, FALSE)
        cons == arguments_countering(m, gid, decision, FALSE)
    IN  IF cons # 0 /\ cons <= pros THEN [num |-> 1, den |-> 1]
        ELSE [num |-> pros, den |-> cons]

\* min(1.0, (1 + pros) / (1 + cons))
j_offset(m, gid, decision) ==
    LET pros == arguments_supporting(m, gid, decision, FALSE)
        cons == arguments_countering(m, gid, decision, FALSE)
    IN  IF 1 + cons <= 1 + pros THEN [num |-> 1, den |-> 1]
        ELSE [num |-> 1 + pros, den |-> 1 + cons]

\* The judgment functions, by name.
Transforms == {"j_simple", "j_diff", "j_ratio", "j_grad", "j_offset"}

\* A mutant of j_transform: every transform keeps the running maximum.
j_transform_all_ratio(j, m, gid, decision, count) ==
    j_ratio(m, gid, decision, count)

\* self.j_transform(current_afdm, decision)
j_transform(j, m, gid, decision, count) ==
    IF j = "j_ratio" THEN j_ratio(m, gid, decision, count)
    ELSE [reward |-> CASE j = "j_simple" -> j_simple(m, gid, decision)
                       [] j = "j_diff" -> j_diff(m, gid, decision)
                       [] j = "j_grad" -> j_grad(m, gid, decision)
                       [] j = "j_offset" -> j_offset(m, gid, decision),
          best_acceptable_count |-> count]

---------------------------------------------------------------------------
(* JudgingAgent (judging_agent.py).  An agent is a record                  *)
(*   base_afdm        the graph it owns (a key of `graph`);                *)
(*   activation_rate  name -> Activation [activated, total];               *)
(*   last_activation  name -> bool.                                        *)
(*   j_transform      the name of its judgment function.                   *)
(* moral_value is a label and is left out.                                 *)

EmptyDict == [n \in {} |-> None]

NoAgent == [base_afdm |-> "None", activation_rate |-> EmptyDict,
            last_activation |-> EmptyDict, j_transform |-> "None"]

\* copy.deepcopy(base_afdm): every Argument of the graph is copied into the
\* graph `gid`, the rest of the graph is copied by value.
RECURSIVE deepcopy_arguments(_, _, _, _)
deepcopy_arguments(h, A, gid, i) ==
    IF i > Len(A) THEN [heap |-> h, A |-> A]
    ELSE LET c == deepcopy(h, A[i].ref, <<gid, A[i].name>>)
         IN  deepcopy_arguments(c.heap, [A EXCEPT ![i].ref = c.ref], gid, i + 1)

deepcopy_AFDM(m, src, gid) ==
    LET c == deepcopy_arguments(m.heap, m.graph[src].A, gid, 1)
    IN  [graph |-> [m.graph EXCEPT ![gid] = [m.graph[src] EXCEPT !.A = c.A]],
         heap |-> c.heap]

\* A mutant of JudgingAgent_init: the agent keeps the graph it is given.
JudgingAgent_init_no_copy(m, self, base_afdm, j) ==
    [mem |-> m,
     agent |-> [base_afdm |-> base_afdm,
                activation_rate |->
                    [k \in Keys(m.graph[base_afdm]) |->
                        [activated |-> 0, total |-> 0]],
                last_activation |-> EmptyDict,
                j_transform |-> j]]

\* JudgingAgent(moral_value, base_afdm, j): `self` is the graph the new
\* agent owns.
JudgingAgent_init(m, self, base_afdm, j) ==
    LET m2 == deepcopy_AFDM(m, base_afdm, self)
    IN  [mem |-> m2,
         agent |-> [base_afdm |-> self,
                    activation_rate |->
                        [k \in Keys(m2.graph[self]) |->
                            [activated |-> 0, total |-> 0]],
                    last_activation |-> EmptyDict,
                    j_transform |-> j]]

\* The first loop of _filter_afdm, from the i-th template argument on.
RECURSIVE filter_arguments(_, _, _, _)
filter_arguments(m, base, situation, i) ==
    IF i > Len(m.graph[base].A) THEN m
    ELSE LET a == add_argument(m, "current_afdm", m.graph[base].A[i].ref)
             new_argument == a.ref
             m2 == [a.mem EXCEPT !.heap = set_alive(@, new_argument,
                        compute(a.mem.heap[new_argument], situation))]
         IN  filter_arguments(m2, base, situation, i + 1)

\* A mutant of filter_attack: only the attacker has to be alive.
filter_attack_attacker_only(m, attack) ==
    IF is_alive(m, "current_afdm", attack[1]).val
    THEN add_attack_relation(m, "current_afdm", attack[1], attack[2]).mem
    ELSE m

\* A mutant of filter_attack: aliveness is read in the template.
filter_attack_template_alive(m, attack) ==
    IF is_alive(m, "base_afdm", attack[1]).val
         /\ is_alive(m, "base_afdm", attack[2]).val
    THEN add_attack_relation(m, "current_afdm", attack[1], attack[2]).mem
    ELSE m

\* The body of the second loop of _filter_afdm.
filter_attack(m, attack) ==
    IF is_alive(m, "current_afdm", attack[1]).val
         /\ is_alive(m, "current_afdm", attack[2]).val
    THEN add_attack_relation(m, "current_afdm", attack[1], attack[2]).mem
    ELSE m

\* The second loop of _filter_afdm over the attacks still to visit.
RECURSIVE filter_attacks(_, _)
filter_attacks(m, attacks) ==
    IF attacks = {} THEN m
    ELSE LET attack == CHOOSE a \in attacks : TRUE
         IN  filter_attacks(filter_attack(m, attack), attacks \ {attack})

_filter_afdm(m, a, situation) ==
    LET fresh == [m EXCEPT !.graph["current_afdm"] = AFDM_init]
        m2 == filter_arguments(fresh, a.base_afdm, situation, 1)
    IN  filter_attacks(m2, R(m2.graph[a.base_afdm]))

\* A mutant of _update_activation_rate: activated counts every call.
_update_activation_rate_always(m, a) ==
    LET names == Keys(m.graph[a.base_afdm])
        rate(k) == IF k \in DOMAIN a.activation_rate THEN a.activation_rate[k]
                   ELSE [activated |-> 0, total |-> 0]
    IN  [a EXCEPT
           !.last_activation =
               [k \in names |-> k \in Range(m.graph["current_afdm"].grounded)],
           !.activation_rate =
               [k \in names \cup DOMAIN a.activation_rate |->
                   IF k \in names
                   THEN [activated |-> rate(k).activated + 1,
                         total |-> rate(k).total + 1]
                   ELSE a.activation_rate[k]]]

\* A mutant of _update_activation_rate: last_activation is not emptied, and
\* an entry that is true stays true.
_update_activation_rate_keep_last(m, a) ==
    LET names == Keys(m.graph[a.base_afdm])
        in_grounded(k) == k \in Range(m.graph["current_afdm"].grounded)
        last(k) == k \in DOMAIN a.last_activation /\ a.last_activation[k]
        rate(k) == IF k \in DOMAIN a.activation_rate THEN a.activation_rate[k]
                   ELSE [activated |-> 0, total |-> 0]
    IN  [a EXCEPT
           !.last_activation = [k \in names |-> in_grounded(k) \/ last(k)],
           !.activation_rate =
               [k \in names \cup DOMAIN a.activation_rate |->
                   IF k \in names
                   THEN [activated |-> rate(k).activated
                                          + (IF in_grounded(k) THEN 1 ELSE 0),
                         total |-> rate(k).total + 1]
                   ELSE a.activation_rate[k]]]

_update_activation_rate(m, a) ==
    LET names == Keys(m.graph[a.base_afdm])
        in_grounded(k) == k \in Range(m.graph["current_afdm"].grounded)
        rate(k) == IF k \in DOMAIN a.activation_rate THEN a.activation_rate[k]
                   ELSE [activated |-> 0, total |-> 0]
    IN  [a EXCEPT
           !.last_activation = [k \in names |-> in_grounded(k)],
           !.activation_rate =
               [k \in names \cup DOMAIN a.activation_rate |->
                   IF k \in names
                   THEN [activated |-> rate(k).activated
                                          + (IF in_grounded(k) THEN 1 ELSE 0),
                         total |-> rate(k).total + 1]
                   ELSE a.activation_rate[k]]]

judge(m, a, situation, decision, count) ==
    LET m2 == _filter_afdm(m, a, situation)
        m3 == update_alive_in_grounded_extension(m2, "current_afdm")
        j == j_transform(a.j_transform, m3, "current_afdm", decision, count)
    IN  [mem |-> m3,
         agent |-> _update_activation_rate(m3, a),
         reward |-> j.reward,
         best_acceptable_count |-> j.best_acceptable_count]

---------------------------------------------------------------------------
(* The state.                                                              *)
(*   graph  the AFDM objects: `afdm` is the caller's graph, `base_afdm`    *)
(*          the template a JudgingAgent owns (`base_afdm_B` that of the    *)
(*          second agent), `current_afdm` the graph _filter_afdm builds;   *)
(*   heap   the Argument objects;                                          *)
(*   arg    the caller's own Argument object (a reference, or NoRef);      *)
(*   agent  the JudgingAgent, and agent_B a second one;                    *)
(*   best_acceptable_count  the attribute of the function j_ratio;         *)
(*   hist   the situations judged so far (history of the judge calls),     *)
(*          or the names alive at each j_ratio call made so far;           *)
(*   frame  the frame of a running compute_grounded_extension call: its    *)
(*          position pc, its locals labels and x, and the number of times  *)
(*          the body of its while loop has run;                            *)
(*   ret    the last call: its name, its inputs, the object it acted on,   *)
(*          and what it returned or raised (exc is the name carried by     *)
(*          ArgumentNotFoundError; ref is the Argument the caller was      *)
(*          last handed by add_argument).                                  *)

GraphIds == {"afdm", "base_afdm", "base_afdm_B", "current_afdm"}

Mem == [graph |-> graph, heap |-> heap]

\* No call of compute_grounded_extension is running.
NoFrame == [pc |-> "idle", labels |-> EmptyDict, x |-> None, iterations |-> 0]

EmptyMem == [graph |-> [gid \in GraphIds |-> AFDM_init], heap |-> EmptyDict]

Ret(op, in) ==
    [op |-> op, in |-> in, on |-> NoRef, exc |-> None, ref |-> NoRef,
     list |-> <<>>, set |-> {}, bool |-> FALSE, reward |-> [num |-> 0, den |-> 1]]

\* Reference counting: an object that neither a graph nor the caller
\* references is freed.
Sweep(m, keep) ==
    LET used == keep \cup UNION {ArgRefs(m.graph[gid]) : gid \in DOMAIN m.graph}
    IN  [m EXCEPT !.heap = [c \in DOMAIN m.heap \cap used |-> m.heap[c]]]

\* The state after a call that left memory m, the caller's object a and the
\* result r.
Commit(m, a, r) ==
    /\ graph' = m.graph
    /\ heap' = Sweep(m, {a, r.ref}).heap
    /\ arg' = a
    /\ ret' = r

Init ==
    /\ graph = EmptyMem.graph
    /\ heap = EmptyMem.heap
    /\ arg = NoRef
    /\ agent = NoAgent
    /\ agent_B = NoAgent
    /\ best_acceptable_count = 0
    /\ hist = <<>>
    /\ frame = NoFrame
    /\ ret = Ret("init", <<>>)

---------------------------------------------------------------------------
(* Calls on the caller's graph `afdm`.                                     *)

\* afdm.add_argument(Argument(name)).  Names are opaque, so new names are
\* taken in increasing order; a known name may be added again.
AddNewArgument(name) ==
    /\ name \in Keys(graph.afdm) \/ name = Len(graph.afdm.A) + 1
    /\ LET o == new_object(heap, TmpCell, Argument_init(name, always_true, {}, {}))
           a == add_argument([graph |-> graph, heap |-> o.heap], "afdm", o.ref)
       IN  Commit(a.mem, arg, [Ret("add_argument", <<name>>) EXCEPT !.ref = a.ref])
    /\ UNCHANGED <<agent, hist, agent_B, best_acceptable_count, frame>>

\* afdm.A[name].set_alive(alive), on a stored argument.
SetAlive(name, alive) ==
    /\ name \in Keys(graph.afdm)
    /\ heap[Lookup(graph.afdm, name)].alive # alive
    /\ Commit([graph |-> graph,
               heap |-> set_alive(heap, Lookup(graph.afdm, name), alive)],
              arg, Ret("set_alive", <<name>>))
    /\ UNCHANGED <<agent, hist, agent_B, best_acceptable_count, frame>>

AddAttackRelation(attacker, attacked) ==
    /\ Cardinality(R(graph.afdm)) < MaxApiAttacks
    /\ LET a == add_attack_relation(Mem, "afdm", attacker, attacked)
       IN  Commit(a.mem, arg,
                  [Ret("add_attack_relation", <<attacker, attacked>>)
                      EXCEPT !.exc = a.exc])
    /\ UNCHANGED <<agent, hist, agent_B, best_acceptable_count, frame>>

IsAlive(name) ==
    /\ LET a == is_alive(Mem, "afdm", name)
       IN  Commit(Mem, arg,
                  [Ret("is_alive", <<name>>)
                      EXCEPT !.exc = a.exc, !.bool = a.val])
    /\ UNCHANGED <<agent, hist, agent_B, best_acceptable_count, frame>>

GetAttackers(name) ==
    /\ LET a == get_attackers(Mem, "afdm", name)
       IN  Commit(Mem, arg,
                  [Ret("get_attackers", <<name>>)
                      EXCEPT !.exc = a.exc, !.set = a.val])
    /\ UNCHANGED <<agent, hist, agent_B, best_acceptable_count, frame>>

GetAttacked(name) ==
    /\ LET a == get_attacked(Mem, "afdm", name)
       IN  Commit(Mem, arg,
                  [Ret("get_attacked", <<name>>)
                      EXCEPT !.exc = a.exc, !.set = a.val])
    /\ UNCHANGED <<agent, hist, agent_B, best_acceptable_count, frame>>

ApiNames == 1..(NumApiNames + 1)

Next ==
    \/ \E name \in 1..NumApiNames : AddNewArgument(name)
    \/ \E name \in ApiNames, alive \in BOOLEAN : SetAlive(name, alive)
    \/ \E attacker \in ApiNames, attacked \in ApiNames :
          AddAttackRelation(attacker, attacked)
    \/ \E name \in ApiNames : IsAlive(name)
    \/ \E name \in ApiNames : GetAttackers(name)
    \/ \E name \in ApiNames : GetAttacked(name)

Spec == Init /\ [][Next]_vars

---------------------------------------------------------------------------
(* The grounded extension of every bounded graph: the caller's graph is    *)
(* any graph that add_argument, set_alive and add_attack_relation build.   *)

\* afdm.add_argument(argument) for each Argument of a sequence.
RECURSIVE add_arguments(_, _, _)
add_arguments(m, gid, arguments) ==
    IF arguments = <<>> THEN m
    ELSE LET o == new_object(m.heap, TmpCell, Head(arguments))
             a == add_argument([m EXCEPT !.heap = o.heap], gid, o.ref)
         IN  add_arguments(a.mem, gid, Tail(arguments))

\* afdm.add_attack_relation(attacker, attacked) for each attack of a set.
RECURSIVE add_attacks(_, _, _)
add_attacks(m, gid, attacks) ==
    IF attacks = {} THEN m
    ELSE LET attack == CHOOSE a \in attacks : TRUE
         IN  add_attacks(add_attack_relation(m, gid, attack[1], attack[2]).mem,
                         gid, attacks \ {attack})

\* The graph `afdm` holding the given Arguments and attacks.
Build(arguments, attacks) ==
    Sweep(add_attacks(add_arguments(EmptyMem, "afdm", arguments), "afdm", attacks), {})

AttackSets(k, max) ==
    {S \in SUBSET ((1..k) \X (1..k)) : Cardinality(S) <= max}

InitGrounded ==
    \E k \in 0..NumNames :
      \E attacks \in AttackSets(k, MaxAttacks), alive \in [1..k -> BOOLEAN] :
        LET arguments == [i \in 1..k |->
                [Argument_init(i, always_true, {}, {}) EXCEPT !.alive = alive[i]]]
            m == Build(arguments, attacks)
        IN  /\ graph = m.graph
            /\ heap = m.heap
            /\ arg = NoRef
            /\ agent = NoAgent
            /\ agent_B = NoAgent
            /\ best_acceptable_count = 0
            /\ hist = <<>>
            /\ frame = NoFrame
            /\ ret = Ret("init", <<>>)

\* afdm.compute_grounded_extension()
ComputeGroundedExtension ==
    /\ Commit(Mem, arg,
              [Ret("compute_grounded_extension", <<>>)
                  EXCEPT !.list = compute_grounded_extension(Mem, "afdm")])
    /\ UNCHANGED <<agent, hist, agent_B, best_acceptable_count, frame>>

\* afdm.update_alive_in_grounded_extension()
UpdateAliveInGroundedExtension ==
    /\ Commit(update_alive_in_grounded_extension(Mem, "afdm"), arg,
              Ret("update_alive_in_grounded_extension", <<>>))
    /\ UNCHANGED <<agent, hist, agent_B, best_acceptable_count, frame>>

NextGrounded ==
    \/ ComputeGroundedExtension
    \/ UpdateAliveInGroundedExtension

SpecGrounded == InitGrounded /\ [][NextGrounded]_vars

---------------------------------------------------------------------------
(* Claims about the grounded extension, under SpecGrounded.                *)

\* The alive arguments of a graph.
AliveNames(g, h) == {n \in Keys(g) : h[Lookup(g, n)].alive}

\* The characteristic function of the framework restricted to the alive
\* arguments: the alive arguments all of whose attackers are dead or
\* attacked by a member of S.
Defended(g, h, S) ==
    {a \in AliveNames(g, h) :
        \A b \in Names : <<b, a>> \in R(g) =>
            \/ b \notin AliveNames(g, h)
            \/ \E c \in S : <<c, b>> \in R(g)}

RECURSIVE LeastFixedPoint(_, _, _)
LeastFixedPoint(g, h, S) ==
    IF Defended(g, h, S) = S THEN S ELSE LeastFixedPoint(g, h, Defended(g, h, S))

GroundedExtension(g, h) == LeastFixedPoint(g, h, {})

\* C1: what compute_grounded_extension returns is exactly the least fixed
\* point of the characteristic function of the graph restricted to its
\* alive arguments, each name once.
C1_GroundedIsLeastFixedPoint ==
    ret.op = "compute_grounded_extension" =>
        /\ Range(ret.list) = GroundedExtension(graph.afdm, heap)
        /\ Len(ret.list) = Cardinality(Range(ret.list))

\* A graph with a self-attack, a dead attacker and an attack cycle among
\* alive arguments, whose extension is not empty.
C1_Witness ==
    /\ ret.op = "compute_grounded_extension"
    /\ ret.list # <<>>
    /\ \E a \in Names : <<a, a>> \in R(graph.afdm)
    /\ \E a \in Names, b \in Range(ret.list) :
          <<a, b>> \in R(graph.afdm) /\ a \notin AliveNames(graph.afdm, heap)

\* C2: no attack of the graph goes from a member of the returned set to a
\* member of the returned set.
C2_GroundedConflictFree ==
    ret.op = "compute_grounded_extension" =>
        \A attack \in R(graph.afdm) :
            attack[1] \in Range(ret.list) => attack[2] \notin Range(ret.list)

\* An alive self-attacking argument and an accepted argument attacking
\* another alive one.
C2_Witness ==
    /\ ret.op = "compute_grounded_extension"
    /\ \E a \in AliveNames(graph.afdm, heap) : <<a, a>> \in R(graph.afdm)
    /\ \E a \in Range(ret.list), b \in AliveNames(graph.afdm, heap) :
          <<a, b>> \in R(graph.afdm)

\* C3: an argument that is not alive is not in the returned set, and
\* update_alive_in_grounded_extension never turns a dead argument alive.
C3_DeadNeverGrounded ==
    /\ [](ret.op = "compute_grounded_extension" =>
            Range(ret.list) \subseteq AliveNames(graph.afdm, heap))
    /\ [][ret'.op = "update_alive_in_grounded_extension" =>
            /\ Range(graph'.afdm.grounded) \subseteq AliveNames(graph.afdm, heap)
            /\ AliveNames(graph'.afdm, heap') \subseteq AliveNames(graph.afdm, heap)]_vars

\* A dead argument that nothing attacks is left out.
C3_Witness ==
    /\ ret.op = "compute_grounded_extension"
    /\ \E n \in Keys(graph.afdm) :
          /\ n \notin AliveNames(graph.afdm, heap)
          /\ graph.afdm.attackers[n] = {}
          /\ n \notin Range(ret.list)

\* The chain of test_simple_grounded: a attacks b, b attacks c.
Chain(g) == Len(g.A) >= 3 /\ R(g) = {<<g.A[1].name, g.A[2].name>>, <<g.A[2].name, g.A[3].name>>}

\* C4: update_alive_in_grounded_extension stores the grounded extension of
\* the graph it was called on, and leaves an argument alive exactly when
\* its name is in it; on the all-alive chain the result is [a, c].
C4_UpdateAliveStoresGrounded ==
    [][ret'.op = "update_alive_in_grounded_extension" =>
        /\ Range(graph'.afdm.grounded) = GroundedExtension(graph.afdm, heap)
        /\ \A x \in Keys(graph'.afdm) :
              heap'[Lookup(graph'.afdm, x)].alive <=> x \in Range(graph'.afdm.grounded)
        /\ (Chain(graph.afdm) /\ Len(graph.afdm.A) = 3
              /\ AliveNames(graph.afdm, heap) = Keys(graph.afdm)) =>
                graph'.afdm.grounded = <<graph.afdm.A[1].name, graph.afdm.A[3].name>>]_vars

C4_Witness ==
    /\ ret.op = "update_alive_in_grounded_extension"
    /\ Chain(graph.afdm) /\ Len(graph.afdm.A) = 3
    /\ graph.afdm.grounded = <<graph.afdm.A[1].name, graph.afdm.A[3].name>>
    /\ heap[graph.afdm.A[1].ref].alive
    /\ ~heap[graph.afdm.A[2].ref].alive
    /\ heap[graph.afdm.A[3].ref].alive

---------------------------------------------------------------------------
(* Claims about the calls on the caller's graph, under Spec.               *)

\* The attacks the attackers index stores, as pairs <<attacker, attacked>>.
AttackersPairs(g) == {<<x, y>> \in Names \X Names : x \in g.attackers[y]}

\* C8: add_attack_relation raises ArgumentNotFoundError exactly when the
\* attacker or the attacked name is unknown, a failed call changes neither
\* index, and both endpoints of every stored attack are arguments.
C8_AttackEndpointsKnown ==
    /\ [](ret.op = "add_attack_relation" =>
            /\ ret.exc # None <=>
                  (ret.in[1] \notin Keys(graph.afdm) \/ ret.in[2] \notin Keys(graph.afdm))
            /\ ret.exc # None => ret.exc \in {ret.in[1], ret.in[2]} \ Keys(graph.afdm))
    /\ [][(ret'.op = "add_attack_relation" /\ ret'.exc # None) =>
            /\ graph'.afdm.attackers = graph.afdm.attackers
            /\ graph'.afdm.attacked = graph.afdm.attacked]_vars
    /\ [](\A attack \in R(graph.afdm) \cup AttackersPairs(graph.afdm) :
            attack[1] \in Keys(graph.afdm) /\ attack[2] \in Keys(graph.afdm))

\* A call with a known attacker and an unknown attacked name has failed on
\* a graph that already stores an attack.
C8_Witness ==
    /\ ret.op = "add_attack_relation"
    /\ ret.in[1] \in Keys(graph.afdm)
    /\ ret.in[2] \notin Keys(graph.afdm)
    /\ ret.exc = ret.in[2]
    /\ R(graph.afdm) # {}

\* C9: a lookup of a name that is not in the graph raises
\* ArgumentNotFoundError carrying that name.
C9_LookupOfAbsentNameFails ==
    (/\ ret.op \in {"is_alive", "get_attackers", "get_attacked"}
     /\ ret.in[1] \notin Keys(graph.afdm)) => ret.exc = ret.in[1]

---------------------------------------------------------------------------
(* The caller keeps its own Argument object `arg` and the Argument that    *)
(* add_argument last returned (ret.ref), and changes either.               *)

\* arg = Argument(name).  The variable is rebound: the cell of the previous
\* object is reused, nothing else referencing it.
NewArgument(name) ==
    /\ \A gid \in GraphIds : ArgCell \notin ArgRefs(graph[gid])
    /\ LET o == new_object(heap, ArgCell, Argument_init(name, always_true, {}, {}))
       IN  Commit([graph |-> graph, heap |-> o.heap], o.ref,
                  [Ret("Argument", <<name>>) EXCEPT !.ref = ret.ref])
    /\ UNCHANGED <<agent, hist, agent_B, best_acceptable_count, frame>>

\* afdm.add_argument(arg)
AddArgument ==
    /\ arg # NoRef
    /\ LET a == add_argument(Mem, "afdm", arg)
       IN  Commit(a.mem, arg,
                  [Ret("add_argument", <<heap[arg].name>>) EXCEPT !.ref = a.ref])
    /\ UNCHANGED <<agent, hist, agent_B, best_acceptable_count, frame>>

CallerRefs == {arg, ret.ref} \ {NoRef}

\* ref.set_alive(alive)
CallerSetAlive(ref, alive) ==
    /\ heap[ref].alive # alive
    /\ Commit([graph |-> graph, heap |-> set_alive(heap, ref, alive)], arg,
              [Ret("set_alive", <<>>) EXCEPT !.on = ref, !.ref = ret.ref])
    /\ UNCHANGED <<agent, hist, agent_B, best_acceptable_count, frame>>

\* ref.add_support(value), with a value that is not present already.
CallerAddSupport(ref, value) ==
    /\ value \notin heap[ref].support
    /\ Commit([graph |-> graph, heap |-> add_support(heap, ref, value)], arg,
              [Ret("add_support", <<>>) EXCEPT !.on = ref, !.ref = ret.ref])
    /\ UNCHANGED <<agent, hist, agent_B, best_acceptable_count, frame>>

\* ref.add_counter(value), with a value that is not present already.
CallerAddCounter(ref, value) ==
    /\ value \notin heap[ref].counter
    /\ Commit([graph |-> graph, heap |-> add_counter(heap, ref, value)], arg,
              [Ret("add_counter", <<>>) EXCEPT !.on = ref, !.ref = ret.ref])
    /\ UNCHANGED <<agent, hist, agent_B, best_acceptable_count, frame>>

NextCopy ==
    \/ \E name \in 1..NumCopyNames : NewArgument(name)
    \/ AddArgument
    \/ \E ref \in CallerRefs, alive \in BOOLEAN : CallerSetAlive(ref, alive)
    \/ \E ref \in CallerRefs, value \in Decisions : CallerAddSupport(ref, value)
    \/ \E ref \in CallerRefs, value \in Decisions : CallerAddCounter(ref, value)

SpecCopy == Init /\ [][NextCopy]_vars

\* The field values of the Arguments a graph stores, by name.
Stored(g, h) == [n \in Keys(g) |-> h[Lookup(g, n)]]

Mutators == {"set_alive", "add_support", "add_counter"}

\* C10: add_argument returns the Argument it stored, which is not the
\* caller's; a change of the caller's Argument changes no stored Argument,
\* and a change made through the returned Argument is a change of the
\* Argument stored under its name.
C10_AddArgumentCopies ==
    /\ [](ret.op = "add_argument" =>
            /\ ret.ref = Lookup(graph.afdm, ret.in[1])
            /\ ret.ref # arg)
    /\ [][(ret'.op \in Mutators /\ ret'.on = arg) =>
            Stored(graph'.afdm, heap') = Stored(graph.afdm, heap)]_vars
    /\ [][(ret'.op \in Mutators /\ ret'.on = ret.ref) =>
            /\ heap[ret.ref].name \in Keys(graph.afdm)
            /\ Stored(graph'.afdm, heap')[heap[ret.ref].name] = heap'[ret.ref]
            /\ Stored(graph'.afdm, heap')[heap[ret.ref].name]
                  # Stored(graph.afdm, heap)[heap[ret.ref].name]]_vars

\* The caller has changed the support list of its Argument after adding
\* it: the stored Argument of that name still has the list it was added
\* with.
C10_Witness ==
    /\ ret.op = "add_support"
    /\ ret.on = arg
    /\ heap[arg].name \in Keys(graph.afdm)
    /\ heap[arg].support # Stored(graph.afdm, heap)[heap[arg].name].support
    /\ heap[arg].alive # Stored(graph.afdm, heap)[heap[arg].name].alive

---------------------------------------------------------------------------
(* A JudgingAgent over every bounded template.  The caller builds a graph  *)
(* whose Arguments have any activation function, and constructs the agent  *)
(* from it.                                                                *)

\* The state after JudgingAgent(moral_value, afdm, j_transform), afdm
\* holding the given Arguments and attacks.
ConstructedWith(arguments, attacks, j_transform_name) ==
    LET j == JudgingAgent_init(Build(arguments, attacks), "base_afdm", "afdm",
                               j_transform_name)
    IN  /\ graph = j.mem.graph
        /\ heap = j.mem.heap
        /\ arg = NoRef
        /\ agent = j.agent
        /\ agent_B = NoAgent
        /\ best_acceptable_count = 0
        /\ hist = <<>>
        /\ frame = NoFrame
        /\ ret = Ret("init", <<>>)

\* The agent of the test: its transform is j_diff.
Constructed(arguments, attacks) == ConstructedWith(arguments, attacks, "j_diff")

\* The Arguments are as Argument(...) makes them: alive.
InitJudge ==
    \E k \in 0..TemplateArgs :
      \E attacks \in AttackSets(k, MaxTemplateAttacks),
         activation \in [1..k -> Thresholds] :
        Constructed([i \in 1..k |-> Argument_init(i, activation[i], {}, {})], attacks)

\* The caller has set the alive flag of any Argument before constructing
\* the agent.
InitFilter ==
    \E k \in 0..TemplateArgs :
      \E attacks \in AttackSets(k, MaxTemplateAttacks),
         activation \in [1..k -> Thresholds], alive \in [1..k -> BOOLEAN] :
        Constructed([i \in 1..k |->
            [Argument_init(i, activation[i], {}, {}) EXCEPT !.alive = alive[i]]], attacks)

\* agent._filter_afdm(situation); the caller keeps the graph it returns.
FilterAfdm(situation) ==
    /\ Commit(_filter_afdm(Mem, agent, situation), arg,
              Ret("_filter_afdm", <<situation>>))
    /\ UNCHANGED <<agent, hist, agent_B, best_acceptable_count, frame>>

\* update_alive_in_grounded_extension() on the graph _filter_afdm returned.
UpdateFiltered ==
    /\ ret.op = "_filter_afdm"
    /\ Commit(update_alive_in_grounded_extension(Mem, "current_afdm"), arg,
              Ret("update_alive_in_grounded_extension", ret.in))
    /\ UNCHANGED <<agent, hist, agent_B, best_acceptable_count, frame>>

NextFilter ==
    \/ \E situation \in Situations : FilterAfdm(situation)
    \/ UpdateFiltered

SpecFilter == InitFilter /\ [][NextFilter]_vars

\* agent.judge(situation, decision).  The specialised graph is local to the
\* call and is dropped when it returns.
Judge(situation, decision) ==
    /\ Len(hist) < MaxJudge
    /\ LET j == judge(Mem, agent, situation, decision, best_acceptable_count)
       IN  /\ Commit([j.mem EXCEPT !.graph["current_afdm"] = AFDM_init], arg,
                     [Ret("judge", <<situation>>) EXCEPT !.reward = j.reward])
           /\ agent' = j.agent
           /\ best_acceptable_count' = j.best_acceptable_count
    /\ hist' = Append(hist, situation)
    /\ UNCHANGED <<agent_B, frame>>

NextJudge == \E situation \in Situations, decision \in Decisions : Judge(situation, decision)

SpecJudge == InitJudge /\ [][NextJudge]_vars

---------------------------------------------------------------------------
(* Claims about the JudgingAgent, under SpecFilter and SpecJudge.          *)

\* The template of the agent.
Template == graph[agent.base_afdm]

TemplateView == [Template EXCEPT !.A = <<KeySeq(Template), Stored(Template, heap)>>]

\* C6: a judge call leaves the template as it was: names, alive flags,
\* support and counter lists, attacks and the grounded field.
C6_JudgeKeepsTemplate ==
    [][ret'.op = "judge" => TemplateView' = TemplateView]_vars

\* Two judge calls were made, the last of which left a template Argument
\* out of the grounded extension; that Argument is still alive in the
\* template.
C6_Witness ==
    /\ ret.op = "judge"
    /\ Len(hist) >= 2
    /\ \E k \in Keys(Template) :
          /\ ~agent.last_activation[k]
          /\ heap[Lookup(Template, k)].alive

\* The grounded extension of the judge call on a situation: that of the
\* template with aliveness set by the activation functions.
JudgedGrounded(situation) ==
    GroundedExtension(Template,
        [c \in ArgRefs(Template) |->
            [heap[c] EXCEPT !.alive = compute(heap[c], situation)]])

\* C7: after n judge calls, for every template argument k,
\* activation_rate[k].total is n and activation_rate[k].activated is the
\* number of those calls whose grounded extension contained k, hence
\* between 0 and total.
C7_ActivationRateCounts ==
    \A k \in Keys(Template) :
        LET rate == agent.activation_rate[k]
        IN  /\ rate.total = Len(hist)
            /\ rate.activated =
                  Cardinality({i \in 1..Len(hist) : k \in JudgedGrounded(hist[i])})
            /\ 0 <= rate.activated
            /\ rate.activated <= rate.total

\* Two calls, one of which had the argument in its grounded extension and
\* the other not, while another argument was in both.
C7_Witness ==
    /\ Len(hist) = 2
    /\ \E k, l \in Keys(Template) :
          /\ agent.activation_rate[k] = [activated |-> 1, total |-> 2]
          /\ agent.activation_rate[l] = [activated |-> 2, total |-> 2]

---------------------------------------------------------------------------
(* A JudgingAgent and the graph it was built from.  After construction    *)
(* the caller goes on changing the original graph `afdm`, and judges.      *)

\* What an Argument says about a decision: it supports it, counters it,
\* or does not mention it.
Kinds == {<<support, counter>> \in (SUBSET Decisions) \X (SUBSET Decisions) :
             support \cap counter = {}}

InitIsolated ==
    \E k \in 0..IsolatedArgs :
      \E attacks \in AttackSets(k, MaxTemplateAttacks),
         activation \in [1..k -> Thresholds], kind \in [1..k -> Kinds] :
        Constructed([i \in 1..k |->
            Argument_init(i, activation[i], kind[i][1], kind[i][2])], attacks)

IsolatedNames == 1..(IsolatedArgs + 1)

NextIsolated ==
    \/ \E name \in IsolatedNames : AddNewArgument(name)
    \/ \E name \in IsolatedNames, alive \in BOOLEAN : SetAlive(name, alive)
    \/ \E attacker \in IsolatedNames, attacked \in IsolatedNames :
          AddAttackRelation(attacker, attacked)
    \/ UpdateAliveInGroundedExtension
    \/ \E situation \in Situations, decision \in Decisions : Judge(situation, decision)

SpecIsolated == InitIsolated /\ [][NextIsolated]_vars

\* The calls that change the original graph.
OriginalOps == {"add_argument", "add_attack_relation", "set_alive",
                "update_alive_in_grounded_extension"}

\* What a judge call made now returns and records.
JudgeNow(situation, decision) ==
    LET j == judge(Mem, agent, situation, decision, best_acceptable_count)
    IN  [reward |-> j.reward,
         grounded |-> j.mem.graph["current_afdm"].grounded,
         activation_rate |-> j.agent.activation_rate,
         last_activation |-> j.agent.last_activation]

\* C11: a call that changes the graph the agent was built from changes
\* nothing of what a judge call reads and records (the agent, its template
\* and the running maximum), and so neither the reward nor the statistics
\* of a later judge call: what a judge call returned and recorded is what
\* judging the agent's template returns.
C11_AgentIsolatedFromOriginal ==
    /\ [][ret'.op \in OriginalOps =>
            /\ agent' = agent
            /\ TemplateView' = TemplateView
            /\ best_acceptable_count' = best_acceptable_count]_vars
    /\ [](ret.op = "judge" =>
            /\ ret.reward = JudgeNow(ret.in[1], "moral").reward
            /\ agent.last_activation = JudgeNow(ret.in[1], "moral").last_activation
            /\ Keys(Template) = DOMAIN agent.activation_rate)

\* The original graph has gained an argument that attacks a supporting
\* argument of the template, and the agent has judged after that: the
\* supporting argument was accepted.
C11_Witness ==
    /\ ret.op = "judge"
    /\ \E a \in Keys(graph.afdm) \ Keys(Template), b \in Keys(Template) :
          /\ <<a, b>> \in R(graph.afdm)
          /\ heap[Lookup(graph.afdm, a)].alive
          /\ "moral" \in heap[Lookup(Template, b)].support
          /\ agent.last_activation[b]
          /\ ret.reward.num > 0

---------------------------------------------------------------------------
(* Claims about adding a name again, under SpecCopy.                       *)

\* C12: add_argument with a known name raises nothing and replaces the
\* entry by a copy of the given Argument: the graph holds one Argument per
\* name, and each call adds its name to the names of the graph, the number
\* of Arguments growing by one exactly when the name is new.
C12_AddArgumentReplaces ==
    /\ [](Len(graph.afdm.A) = Cardinality(Keys(graph.afdm)))
    /\ [](ret.op = "add_argument" =>
            /\ ret.exc = None
            /\ ret.in[1] \in Keys(graph.afdm)
            /\ Stored(graph.afdm, heap)[ret.in[1]] = heap[arg])
    /\ [][ret'.op = "add_argument" =>
            /\ Keys(graph'.afdm) = Keys(graph.afdm) \cup {ret'.in[1]}
            /\ Len(graph'.afdm.A) = Len(graph.afdm.A)
                  + (IF ret'.in[1] \in Keys(graph.afdm) THEN 0 ELSE 1)
            /\ \A n \in Keys(graph.afdm) \ {ret'.in[1]} :
                  Stored(graph'.afdm, heap')[n] = Stored(graph.afdm, heap)[n]]_vars

\* The graph knows the decision of an Argument it no longer holds: the
\* Argument that supported the decision was replaced by one of the same
\* name that supports nothing.
C12_Witness ==
    /\ ret.op = "add_argument"
    /\ Len(graph.afdm.A) = 1
    /\ graph.afdm.decisions # {}
    /\ \A n \in Keys(graph.afdm) :
          /\ Stored(graph.afdm, heap)[n].support = {}
          /\ Stored(graph.afdm, heap)[n].counter = {}

---------------------------------------------------------------------------
(* A JudgingAgent with any judgment function, over every bounded template *)
(* whose Arguments support or counter the decision.                        *)

InitReward ==
    \E k \in 0..RewardArgs, j \in Transforms :
      \E attacks \in AttackSets(k, MaxTemplateAttacks),
         activation \in [1..k -> Thresholds], kind \in [1..k -> Kinds] :
        ConstructedWith([i \in 1..k |->
            Argument_init(i, activation[i], kind[i][1], kind[i][2])], attacks, j)

SpecReward == InitReward /\ [][NextJudge]_vars

\* The first judge call of an agent just built from the caller's graph,
\* in a process where j_ratio was never called.
FirstJudge(situation, decision) ==
    LET fresh == JudgingAgent_init(Mem, "base_afdm", "afdm", agent.j_transform)
    IN  judge(fresh.mem, fresh.agent, situation, decision, 0)

\* C13: whatever judge calls came before, a judge call accepts the
\* arguments, and with j_simple, j_diff, j_grad or j_offset returns the
\* reward, that the first call of a new agent on the same template,
\* situation and decision accepts and returns.
C13_JudgeStateless ==
    ret.op = "judge" =>
        /\ agent.last_activation = FirstJudge(ret.in[1], "moral").agent.last_activation
        /\ agent.j_transform \in Transforms \ {"j_ratio"} =>
              ret.reward = FirstJudge(ret.in[1], "moral").reward

\* The second of two calls on different situations, the first of which
\* accepted a supporting argument that the second did not.
C13_Witness ==
    /\ ret.op = "judge"
    /\ Len(hist) = 2
    /\ hist[1] # hist[2]
    /\ agent.j_transform \in {"j_simple", "j_grad"}
    /\ \E k \in Keys(Template) :
          /\ "moral" \in heap[Lookup(Template, k)].support
          /\ agent.activation_rate[k] = [activated |-> 1, total |-> 2]
          /\ ~agent.last_activation[k]
    /\ \E k \in Keys(Template) :
          /\ "moral" \in heap[Lookup(Template, k)].counter
          /\ agent.last_activation[k]

---------------------------------------------------------------------------
(* Two JudgingAgents whose judgment function is j_ratio, built from the    *)
(* same graph.                                                             *)

InitRatio ==
    \E k \in 0..RewardArgs :
      \E attacks \in AttackSets(k, MaxTemplateAttacks),
         activation \in [1..k -> Thresholds], kind \in [1..k -> Kinds] :
        LET arguments == [i \in 1..k |->
                Argument_init(i, activation[i], kind[i][1], kind[i][2])]
            a == JudgingAgent_init(Build(arguments, attacks), "base_afdm", "afdm", "j_ratio")
            b == JudgingAgent_init(a.mem, "base_afdm_B", "afdm", "j_ratio")
        IN  /\ graph = b.mem.graph
            /\ heap = b.mem.heap
            /\ arg = NoRef
            /\ agent = a.agent
            /\ agent_B = b.agent
            /\ best_acceptable_count = 0
            /\ hist = <<>>
            /\ frame = NoFrame
            /\ ret = Ret("init", <<>>)

\* agent_B.judge(situation, decision)
JudgeB(situation, decision) ==
    /\ \A k \in DOMAIN agent_B.activation_rate :
          agent_B.activation_rate[k].total < MaxJudge
    /\ LET j == judge(Mem, agent_B, situation, decision, best_acceptable_count)
       IN  /\ Commit([j.mem EXCEPT !.graph["current_afdm"] = AFDM_init], arg,
                     [Ret("agent_B.judge", <<situation>>) EXCEPT !.reward = j.reward])
           /\ agent_B' = j.agent
           /\ best_acceptable_count' = j.best_acceptable_count
    /\ UNCHANGED <<agent, hist, frame>>

NextRatio ==
    \/ \E situation \in Situations, decision \in Decisions : Judge(situation, decision)
    \/ \E situation \in Situations, decision \in Decisions : JudgeB(situation, decision)

SpecRatio == InitRatio /\ [][NextRatio]_vars

\* Two fractions that are the same number.
SameNumber(r, q) == r.num * q.den = q.num * r.den

\* The running maximum after the first n judge calls of the agent, had no
\* other agent called j_ratio.
RECURSIVE OwnCount(_)
OwnCount(n) ==
    IF n = 0 THEN 0
    ELSE judge(Mem, agent, hist[n], "moral", OwnCount(n - 1)).best_acceptable_count

\* C14: the reward a judge call of the agent returns is the reward it
\* returns when the other agent has judged nothing: the running maximum
\* that j_ratio divides by is that of the agent's own calls.
C14_RatioPrivateToAgent ==
    ret.op = "judge" =>
        SameNumber(ret.reward,
                   judge(Mem, agent, hist[Len(hist)], "moral",
                         OwnCount(Len(hist) - 1)).reward)

---------------------------------------------------------------------------
(* The judgment functions called on every bounded graph.  They read the    *)
(* support and counter lists and the alive flags only, so the graphs have  *)
(* no attacks; the caller changes alive flags between the calls.           *)

InitJudgment ==
    \E k \in 0..JudgmentArgs :
      \E kind \in [1..k -> Kinds] :
        LET m == Build([i \in 1..k |->
                     Argument_init(i, always_true, kind[i][1], kind[i][2])], {})
        IN  /\ graph = m.graph
            /\ heap = m.heap
            /\ arg = NoRef
            /\ agent = NoAgent
            /\ agent_B = NoAgent
            /\ best_acceptable_count = 0
            /\ hist = <<>>
            /\ frame = NoFrame
            /\ ret = Ret("init", <<>>)

\* j(afdm, decision) for one of the judgment functions.
CallTransform(j, decision) ==
    /\ LET r == j_transform(j, Mem, "afdm", decision, best_acceptable_count)
       IN  /\ Commit(Mem, arg, [Ret(j, <<decision>>) EXCEPT !.reward = r.reward])
           /\ best_acceptable_count' = r.best_acceptable_count
    /\ UNCHANGED <<agent, hist, agent_B, frame>>

NextJudgment ==
    \/ \E decision \in Decisions : CallTransform("j_simple", decision)
    \/ \E decision \in Decisions : CallTransform("j_diff", decision)
    \/ \E decision \in Decisions : CallTransform("j_ratio", decision)
    \/ \E decision \in Decisions : CallTransform("j_grad", decision)
    \/ \E decision \in Decisions : CallTransform("j_offset", decision)
    \/ \E name \in 1..JudgmentArgs, alive \in BOOLEAN : SetAlive(name, alive)

SpecJudgment == InitJudgment /\ [][NextJudgment]_vars

\* The counts of the caller's graph for the decision of the last call:
\* alive supporting and countering Arguments, and all of them.
Pros == Cardinality({n \in AliveNames(graph.afdm, heap) :
            ret.in[1] \in Stored(graph.afdm, heap)[n].support})

Cons == Cardinality({n \in AliveNames(graph.afdm, heap) :
            ret.in[1] \in Stored(graph.afdm, heap)[n].counter})

TotalPros == Cardinality({n \in Keys(graph.afdm) :
                 ret.in[1] \in Stored(graph.afdm, heap)[n].support})

TotalCons == Cardinality({n \in Keys(graph.afdm) :
                 ret.in[1] \in Stored(graph.afdm, heap)[n].counter})

\* A fraction that is a number (no division by zero) between two integers.
Between(lo, r, hi) ==
    /\ r.den > 0
    /\ lo * r.den <= r.num
    /\ r.num <= hi * r.den

---------------------------------------------------------------------------
(* Claims about the judgment functions, under SpecJudgment.                *)

\* C15 as stated: j_simple returns a number between 0 and 1, which is 0.5
\* if and only if pros + cons = 0.
C15_SimpleHalfOnlyWithoutArguments ==
    ret.op = "j_simple" =>
        /\ Between(0, ret.reward, 1)
        /\ SameNumber(ret.reward, Half) <=> (Pros + Cons = 0)

\* C15, amended: j_simple returns pros / (pros + cons), a number between 0
\* and 1, and 0.5 when pros + cons = 0; it returns 0.5 if and only if
\* pros = cons.
C15_SimpleInUnitRange ==
    ret.op = "j_simple" =>
        /\ Between(0, ret.reward, 1)
        /\ Pros + Cons = 0 => ret.reward = Half
        /\ Pros + Cons # 0 => SameNumber(ret.reward, [num |-> Pros, den |-> Pros + Cons])
        /\ SameNumber(ret.reward, Half) <=> (Pros = Cons)

\* j_simple has returned 0.5 for as many alive supporting as countering
\* arguments, and not through its fallback.
C15_Witness ==
    /\ ret.op = "j_simple"
    /\ Pros = Cons
    /\ Pros > 0
    /\ SameNumber(ret.reward, Half)

\* C16: j_offset returns min(1, (1 + pros) / (1 + cons)), a number greater
\* than 0 and at most 1, and divides by no zero.
C16_OffsetClamped ==
    ret.op = "j_offset" =>
        /\ ret.reward.den > 0
        /\ ret.reward.num > 0
        /\ ret.reward.num <= ret.reward.den
        /\ SameNumber(ret.reward,
                      IF 1 + Pros >= 1 + Cons THEN [num |-> 1, den |-> 1]
                      ELSE [num |-> 1 + Pros, den |-> 1 + Cons])

\* j_offset has returned 1 on a graph with alive supporting arguments and
\* no alive countering argument, one countering argument being dead.
C16_Witness ==
    /\ ret.op = "j_offset"
    /\ Cons = 0
    /\ TotalCons > 0
    /\ Pros > 0
    /\ ret.reward = [num |-> 1, den |-> 1]

\* C17: j_diff returns pros / total_pros - cons / total_cons, a fraction
\* whose total is 0 counting as 0.
C17_DiffOfFractions ==
    ret.op = "j_diff" =>
        LET pros == IF TotalPros # 0 THEN [num |-> Pros, den |-> TotalPros]
                    ELSE [num |-> 0, den |-> 1]
            cons == IF TotalCons # 0 THEN [num |-> Cons, den |-> TotalCons]
                    ELSE [num |-> 0, den |-> 1]
        IN  /\ ret.reward.den > 0
            /\ ret.reward.num * (pros.den * cons.den)
                  = ((pros.num * cons.den) - (cons.num * pros.den)) * ret.reward.den

\* One alive of three supporting arguments and no countering argument:
\* j_diff has returned 1/3.
C17_Witness ==
    /\ ret.op = "j_diff"
    /\ Pros = 1
    /\ TotalPros = 3
    /\ TotalCons = 0
    /\ SameNumber(ret.reward, [num |-> 1, den |-> 3])

\* C18: every value j_ratio returns is between 0 and 1.
C18_RatioInUnitRange ==
    ret.op = "j_ratio" => Between(0, ret.reward, 1)

\* C19: j_diff returns a number between -1 and 1, j_grad a number between
\* 0 and 1, which is 0.5 when total_pros or total_cons is 0; the alive
\* counts never exceed the counts that ignore aliveness.
C19_DiffAndGradRanges ==
    /\ ret.op \in Transforms => (Pros <= TotalPros /\ Cons <= TotalCons)
    /\ ret.op = "j_diff" => Between(-1, ret.reward, 1)
    /\ ret.op = "j_grad" =>
          /\ Between(0, ret.reward, 1)
          /\ (TotalPros = 0 \/ TotalCons = 0) => ret.reward = Half

\* j_grad has returned 1: every supporting argument is alive and every
\* countering argument is dead.
C19_Witness ==
    /\ ret.op = "j_grad"
    /\ TotalPros > 0
    /\ TotalCons > 0
    /\ Pros = TotalPros
    /\ Cons = 0
    /\ SameNumber(ret.reward, [num |-> 1, den |-> 1])

\* C20: no judgment function divides by zero, whatever the counts are.
C20_TransformsNeverFail ==
    ret.op \in Transforms => ret.reward.den > 0

\* j_grad has returned on a graph that has arguments, none of which
\* mentions the decision.
C20_Witness ==
    /\ ret.op = "j_grad"
    /\ Keys(graph.afdm) # {}
    /\ TotalPros = 0
    /\ TotalCons = 0
    /\ ret.reward = Half

---------------------------------------------------------------------------
(* compute_grounded_extension step by step, on every bounded graph: one    *)
(* action for the statements before the while loop, one for an iteration   *)
(* of its body, one for the statements after it.  The graph is not         *)
(* changed while the call runs, and the call can be made again.            *)

\* labels = {...}; x = self._grounded_loop_condition(labels)
EnterGroundedLoop ==
    /\ frame.pc = "idle"
    /\ LET labels == initial_labels(Mem, "afdm")
       IN  frame' = [pc |-> "while", labels |-> labels,
                     x |-> _grounded_loop_condition(Mem, "afdm", labels),
                     iterations |-> 0]
    /\ UNCHANGED <<graph, heap, arg, agent, hist, ret, agent_B, best_acceptable_count>>

\* The body of `while x is not None`.
GroundedLoopBody ==
    /\ frame.pc = "while"
    /\ frame.x # None
    /\ LET labels == grounded_step(Mem, "afdm", frame.labels, frame.x)
       IN  frame' = [frame EXCEPT !.labels = labels,
                                  !.x = _grounded_loop_condition(Mem, "afdm", labels),
                                  !.iterations = @ + 1]
    /\ UNCHANGED <<graph, heap, arg, agent, hist, ret, agent_B, best_acceptable_count>>

\* The loop is left: the names labelled in are collected and returned.
ReturnGrounded ==
    /\ frame.pc = "while"
    /\ frame.x = None
    /\ Commit(Mem, arg,
              [Ret("compute_grounded_extension", <<>>)
                  EXCEPT !.list = SelectSeq(KeySeq(graph.afdm),
                                     LAMBDA argument : frame.labels[argument] = "in")])
    /\ frame' = NoFrame
    /\ UNCHANGED <<agent, hist, agent_B, best_acceptable_count>>

NextLoop ==
    \/ EnterGroundedLoop
    \/ GroundedLoopBody
    \/ ReturnGrounded

SpecLoop == InitGrounded /\ [][NextLoop]_vars

\* The scheduling of a sequential call: a statement that can run does run.
SpecLoopFair == SpecLoop /\ WF_vars(GroundedLoopBody) /\ WF_vars(ReturnGrounded)

\* The while loop has been left and the result is about to be collected.
Stopped == frame.pc = "while" /\ frame.x = None

\* The names a labelling gives a label.
Labelled(labels, label) == {n \in DOMAIN labels : labels[n] = label}

\* The candidates _grounded_loop_condition may return, whatever the order
\* of labels.keys() is.
Eligible(labels) ==
    {c \in DOMAIN labels : valid_candidate(Mem, "afdm", labels, c)}

\* The labellings the loop can stop with when each iteration takes any
\* eligible candidate.
RECURSIVE AnyOrderLabels(_)
AnyOrderLabels(labels) ==
    IF Eligible(labels) = {} THEN {labels}
    ELSE UNION {AnyOrderLabels(grounded_step(Mem, "afdm", labels, x)) :
                   x \in Eligible(labels)}

\* C21: the labelling the loop stops with is the only one any choice of
\* eligible candidates leads to, from the initial labelling and from every
\* labelling the loop goes through; the returned list holds exactly the
\* names it labels in; and a second call on the unchanged graph returns the
\* list the first call returned.
C21_GroundedDeterminedByGraph ==
    /\ [](Stopped =>
            AnyOrderLabels(initial_labels(Mem, "afdm")) = {frame.labels})
    /\ [](frame.pc = "while" =>
            AnyOrderLabels(frame.labels)
               = {grounded_loop(Mem, "afdm", frame.labels)})
    /\ [][frame.pc = "while" /\ frame'.pc = "idle" =>
            /\ Range(ret'.list) = Labelled(frame.labels, "in")
            /\ ret'.list = compute_grounded_extension(Mem, "afdm")
            /\ ret.op = "compute_grounded_extension" => ret'.list = ret.list]_vars

\* A second call has stopped, on a graph whose initial labelling has two
\* eligible candidates and whose extension holds a name that is not the
\* first key and leaves an alive name out.
C21_Witness ==
    /\ Stopped
    /\ ret.op = "compute_grounded_extension"
    /\ Cardinality(Eligible(initial_labels(Mem, "afdm"))) >= 2
    /\ \E n \in Labelled(frame.labels, "in") : n # KeySeq(graph.afdm)[1]
    /\ AliveNames(graph.afdm, heap) \ Labelled(frame.labels, "in") # {}

\* C22: a call that has entered the loop returns; the body of the loop
\* runs at most as many times as the graph has arguments; each run of the
\* body gives the label in to exactly one name, the candidate, which was
\* undecided, and gives the label undecided to no name.
C22_GroundedTerminates ==
    /\ (frame.pc = "while") ~> (frame.pc = "idle")
    /\ [](frame.iterations <= Len(graph.afdm.A))
    /\ [][frame.pc = "while" /\ frame'.pc = "while" =>
            /\ frame'.iterations = frame.iterations + 1
            /\ frame.labels[frame.x] = "undecided"
            /\ Labelled(frame'.labels, "in")
                  = Labelled(frame.labels, "in") \cup {frame.x}
            /\ frame.x \notin Labelled(frame.labels, "in")
            /\ Labelled(frame'.labels, "undecided")
                  \subseteq Labelled(frame.labels, "undecided") \ {frame.x}]_vars

\* The loop has stopped after at least one iteration on a graph with a
\* self-attack and a cycle of two arguments.
C22_Witness ==
    /\ Stopped
    /\ frame.iterations >= 1
    /\ \E a \in Names : <<a, a>> \in R(graph.afdm)
    /\ \E a, b \in Names :
          a # b /\ <<a, b>> \in R(graph.afdm) /\ <<b, a>> \in R(graph.afdm)

\* An argument none of whose attackers survives: each attacker is labelled
\* out, so that none of them is labelled in.
Unattacked(labels, n) ==
    /\ \A a \in graph.afdm.attackers[n] : labels[a] = "out"
    /\ ~ \E a \in graph.afdm.attackers[n] : labels[a] = "in"

\* C23 as stated: when the loop has stopped, every argument all of whose
\* attackers are labelled out and which no argument labelled in attacks is
\* in the returned list.
C23_UnattackedAccepted ==
    [][frame.pc = "while" /\ frame'.pc = "idle" =>
          \A n \in Keys(graph.afdm) :
              Unattacked(frame.labels, n) => n \in Range(ret'.list)]_vars

\* C23, amended: when the loop has stopped, every argument that is alive,
\* all of whose attackers are labelled out and which no argument labelled
\* in attacks, is in the returned list.
C23_AliveUnattackedAccepted ==
    [][frame.pc = "while" /\ frame'.pc = "idle" =>
          \A n \in AliveNames(graph.afdm, heap) :
              Unattacked(frame.labels, n) => n \in Range(ret'.list)]_vars

\* A call has returned a list that holds an attacked argument, whose
\* attackers are all left out, and that lacks a dead argument nothing
\* attacks.
C23_Witness ==
    /\ ret.op = "compute_grounded_extension"
    /\ frame.pc = "idle"
    /\ \E n \in Range(ret.list) :
          /\ graph.afdm.attackers[n] # {}
          /\ graph.afdm.attackers[n] \cap Range(ret.list) = {}
    /\ \E n \in Keys(graph.afdm) \ AliveNames(graph.afdm, heap) :
          graph.afdm.attackers[n] = {} /\ n \notin Range(ret.list)

---------------------------------------------------------------------------
(* The calls that reach the attack indexes of the caller's graph, in any   *)
(* order: the two that write the graph's dicts, the two that read the      *)
(* indexes, and the two grounded-extension calls.                          *)

NextIndex ==
    \/ \E name \in 1..NumApiNames : AddNewArgument(name)
    \/ \E attacker \in ApiNames, attacked \in ApiNames :
          AddAttackRelation(attacker, attacked)
    \/ \E name \in ApiNames : GetAttackers(name)
    \/ \E name \in ApiNames : GetAttacked(name)
    \/ ComputeGroundedExtension
    \/ UpdateAliveInGroundedExtension

SpecIndex == Init /\ [][NextIndex]_vars

\* C24: in every state the calls lead to, y is in attackers[x] exactly
\* when x is in attacked[y].
C24_IndexesConsistent ==
    \A x \in Names, y \in Names :
        y \in graph.afdm.attackers[x] <=> x \in graph.afdm.attacked[y]

\* An add_attack_relation call has failed on a graph that holds attacks
\* and whose grounded field update_alive_in_grounded_extension has set.
C24_Witness ==
    /\ ret.op = "add_attack_relation"
    /\ ret.exc # None
    /\ R(graph.afdm) # {}
    /\ graph.afdm.grounded # <<>>

---------------------------------------------------------------------------
(* A graph built by add_argument calls only, the Arguments supporting and  *)
(* countering any decisions, under names that may be known already.        *)

\* afdm.add_argument(Argument(name, support=support, counter=counter))
AddArgumentWith(name, support, counter) ==
    /\ name \in Keys(graph.afdm) \/ name = Len(graph.afdm.A) + 1
    /\ LET o == new_object(heap, TmpCell,
                           Argument_init(name, always_true, support, counter))
           a == add_argument([graph |-> graph, heap |-> o.heap], "afdm", o.ref)
       IN  Commit(a.mem, arg, [Ret("add_argument", <<name>>) EXCEPT !.ref = a.ref])
    /\ UNCHANGED <<agent, hist, agent_B, best_acceptable_count, frame>>

NextDecisions ==
    \E name \in Names, support \in SUBSET Decisions,
       counter \in SUBSET Decisions :
        AddArgumentWith(name, support, counter)

SpecDecisions == Init /\ [][NextDecisions]_vars

\* C25: the decisions of the graph are exactly the decisions that the
\* Arguments the graph stores support or counter.
C25_DecisionsOfStoredArguments ==
    graph.afdm.decisions =
        UNION {Stored(graph.afdm, heap)[n].support
                  \cup Stored(graph.afdm, heap)[n].counter : n \in Keys(graph.afdm)}

---------------------------------------------------------------------------
(* A sequence of j_ratio calls on the caller's graph, the caller changing  *)
(* alive flags between the calls.  hist keeps, for each call, the names    *)
(* that were alive when it was made.                                       *)

InitRatioCalls ==
    \E k \in 0..RewardArgs :
      \E kind \in [1..k -> Kinds] :
        LET m == Build([i \in 1..k |->
                     Argument_init(i, always_true, kind[i][1], kind[i][2])], {})
        IN  /\ graph = m.graph
            /\ heap = m.heap
            /\ arg = NoRef
            /\ agent = NoAgent
            /\ agent_B = NoAgent
            /\ best_acceptable_count = 0
            /\ hist = <<>>
            /\ frame = NoFrame
            /\ ret = Ret("init", <<>>)

\* j_ratio(afdm, decision)
RatioCall(decision) ==
    /\ Len(hist) < MaxRatioCalls
    /\ LET r == j_ratio(Mem, "afdm", decision, best_acceptable_count)
       IN  /\ Commit(Mem, arg, [Ret("j_ratio", <<decision>>) EXCEPT !.reward = r.reward])
           /\ best_acceptable_count' = r.best_acceptable_count
    /\ hist' = Append(hist, AliveNames(graph.afdm, heap))
    /\ UNCHANGED <<agent, agent_B, frame>>

NextRatioCalls ==
    \/ \E decision \in Decisions : RatioCall(decision)
    \/ \E name \in 1..RewardArgs, alive \in BOOLEAN : SetAlive(name, alive)

SpecRatioCalls == InitRatioCalls /\ [][NextRatioCalls]_vars

\* The counts of the i-th j_ratio call: the Arguments alive at that call
\* that support, and that counter, the decision.
ProsAt(i) == Cardinality({n \in hist[i] :
                 "moral" \in Stored(graph.afdm, heap)[n].support})

ConsAt(i) == Cardinality({n \in hist[i] :
                 "moral" \in Stored(graph.afdm, heap)[n].counter})

\* The maximum of pros + cons over the first n calls, 0 when there is none.
MaxCount(n) ==
    IF n = 0 THEN 0
    ELSE CHOOSE c \in {ProsAt(i) + ConsAt(i) : i \in 1..n} :
            \A i \in 1..n : ProsAt(i) + ConsAt(i) <= c

\* C26: the n-th j_ratio call returns (pros^2 - cons^2) / M for its own
\* counts, M being the maximum of pros + cons over the n calls made, and
\* 0.5 when M is 0; M is the value j_ratio keeps, and it never decreases.
C26_RatioRunningMaximum ==
    /\ [](ret.op = "j_ratio" =>
            LET n == Len(hist)
                M == MaxCount(n)
            IN  /\ best_acceptable_count = M
                /\ M = 0 => ret.reward = Half
                /\ M # 0 => ret.reward =
                      [num |-> ProsAt(n) * ProsAt(n) - ConsAt(n) * ConsAt(n),
                       den |-> M])
    /\ [][best_acceptable_count' >= best_acceptable_count]_vars

\* The second call was made with fewer alive Arguments than the first: its
\* counts add up to 1 and it divides by the maximum 2 of the first call.
C26_Witness ==
    /\ ret.op = "j_ratio"
    /\ Len(hist) = 2
    /\ ProsAt(2) + ConsAt(2) = 1
    /\ ProsAt(1) + ConsAt(1) = 2
    /\ ret.reward.den = 2

---------------------------------------------------------------------------
(* Claims about last_activation, under SpecJudge.                          *)

\* C27: before the first judge call last_activation is empty; after a
\* judge call its keys are the names of the template, and the entry of a
\* name is true exactly when the name is in the grounded extension of that
\* call, whatever the entry was after the calls before.
C27_LastActivationIsLatest ==
    /\ hist = <<>> => DOMAIN agent.last_activation = {}
    /\ ret.op = "judge" =>
          /\ DOMAIN agent.last_activation = Keys(Template)
          /\ {k \in Keys(Template) : agent.last_activation[k]}
                = JudgedGrounded(hist[Len(hist)])

\* After the second of two calls the entry of one argument is true and
\* that of another is false, the first call having left each the other way.
C27_Witness ==
    /\ ret.op = "judge"
    /\ Len(hist) = 2
    /\ \E k, l \in Keys(Template) :
          /\ agent.last_activation[k]
          /\ k \notin JudgedGrounded(hist[1])
          /\ ~agent.last_activation[l]
          /\ l \in JudgedGrounded(hist[1])

---------------------------------------------------------------------------
(* The specialised graph against the template with every attack kept,     *)
(* under SpecFilter.                                                       *)

\* The memory in which each Argument of the template has its alive flag
\* set from the situation, the attacks of the template being as they are.
AliveFromSituation(situation) ==
    [graph |-> graph,
     heap |-> [c \in DOMAIN heap |->
                 IF c \in ArgRefs(Template)
                 THEN [heap[c] EXCEPT !.alive = compute(heap[c], situation)]
                 ELSE heap[c]]]

\* C28: the grounded extension of the graph _filter_afdm builds for a
\* situation is the grounded extension computed on the template with all
\* its attacks, the alive flags being set from the situation.
C28_FilteredAttacksSameGrounded ==
    ret.op = "update_alive_in_grounded_extension" =>
        graph.current_afdm.grounded =
            compute_grounded_extension(AliveFromSituation(ret.in[1]),
                                       agent.base_afdm)

\* An accepted argument that an argument dead in the situation attacks:
\* the attack is in the template and not in the specialised graph.
C28_Witness ==
    /\ ret.op = "update_alive_in_grounded_extension"
    /\ \E attack \in R(Template) \ R(graph.current_afdm) :
          /\ attack[2] \in Range(graph.current_afdm.grounded)
          /\ ~compute(heap[Lookup(Template, attack[1])], ret.in[1])

---------------------------------------------------------------------------
(* update_alive_in_grounded_extension called again, under SpecGrounded.    *)

\* C29: after update_alive_in_grounded_extension, a second call made with
\* no change in between leaves the grounded field and the alive flag of
\* every argument as the first call left them.
C29_UpdateAliveIdempotent ==
    /\ [](ret.op = "update_alive_in_grounded_extension" =>
            LET again == update_alive_in_grounded_extension(Mem, "afdm")
            IN  /\ again.graph.afdm.grounded = graph.afdm.grounded
                /\ \A n \in Keys(graph.afdm) :
                      again.heap[Lookup(again.graph.afdm, n)].alive
                         = heap[Lookup(graph.afdm, n)].alive
                /\ again = Mem)
    /\ [][ret.op = "update_alive_in_grounded_extension"
            /\ ret'.op = "update_alive_in_grounded_extension" =>
               graph' = graph /\ heap' = heap]_vars

\* The call has left alive an argument whose attacker it has left dead,
\* and dead an argument that an accepted argument attacks: the second call
\* finds the attacker dead where the first call found it alive or dead.
C29_Witness ==
    /\ ret.op = "update_alive_in_grounded_extension"
    /\ \E attack \in R(graph.afdm) :
          /\ attack[2] \in Range(graph.afdm.grounded)
          /\ attack[1] \notin AliveNames(graph.afdm, heap)
    /\ \E attack \in R(graph.afdm) :
          /\ attack[1] \in Range(graph.afdm.grounded)
          /\ attack[2] \notin AliveNames(graph.afdm, heap)

---------------------------------------------------------------------------
(* The labels during the loop, under SpecLoop.                             *)

\* C30: an iteration of the loop leaves in every name that is in and out
\* every name that is out, and puts out every name its candidate attacks;
\* while the loop runs, no name labelled in attacks a name labelled in.
C30_LabelsMoveForward ==
    /\ [][frame.pc = "while" /\ frame'.pc = "while" =>
            /\ Labelled(frame.labels, "in") \subseteq Labelled(frame'.labels, "in")
            /\ Labelled(frame.labels, "out") \subseteq Labelled(frame'.labels, "out")
            /\ graph.afdm.attacked[frame.x] \subseteq Labelled(frame'.labels, "out")]_vars
    /\ [](frame.pc = "while" =>
            \A attack \in R(graph.afdm) :
                ~ (frame.labels[attack[1]] = "in" /\ frame.labels[attack[2]] = "in"))

\* After two iterations an alive argument is out, having been attacked by
\* the first candidate, and the argument it attacks is in.
C30_Witness ==
    /\ frame.pc = "while"
    /\ frame.iterations >= 2
    /\ \E attack \in R(graph.afdm) :
          /\ attack[1] \in AliveNames(graph.afdm, heap)
          /\ frame.labels[attack[1]] = "out"
          /\ frame.labels[attack[2]] = "in"

============================================================================
